---- MODULE Spec2Model ----
(***************************************************************************)
(* socket_binder.c: a helper that creates a private directory, binds two   *)
(* listening unix sockets ("data" and "pass") inside it, announces their   *)
(* paths on standard output, accepts one connection on "pass" and sends    *)
(* the "data" socket's descriptor over it with SCM_RIGHTS.                 *)
(*                                                                         *)
(* The model follows main() statement by statement.  Every system call is  *)
(* one step that either succeeds or fails; a failure that the source       *)
(* checks goes through err(1, ...), a failure that the source does not     *)
(* check (dprintf) is ignored exactly as the source ignores it.  The       *)
(* kernel side is modelled as far as the program can observe or change it: *)
(* the descriptor table with lowest-free allocation, the directory         *)
(* entries, the state of each socket, the listen queue of "pass", and the  *)
(* messages in flight on the accepted connection.  Process exit releases   *)
(* every descriptor the process still holds.                               *)
(*                                                                         *)
(* Environment assumed: the process starts with descriptors 0, 1 and 2     *)
(* open; a failing write returns -1 (no SIGPIPE).                          *)
(***************************************************************************)
EXTENDS Integers, Sequences, FiniteSets, TLC

\* ---- bounds of the model
NInst == 2        \* helper instances sharing one base directory (SpecConc)
NPeers == 2       \* peer processes that may connect to the pass path
NSuffix == 2      \* names mkdtemp can draw for the XXXXXX placeholder
MaxTries == 2     \* mkdtemp attempts before it gives up with EEXIST
MaxFd == 6        \* highest descriptor number of a process

\* ---- program constants
BACKLOG == 10     \* listen(sockfd, 10)
STDOUT == 1       \* dprintf(1, ...), close(1)

Procs == 1..NInst
Peers == 1..NPeers
Suffixes == 1..NSuffix
Fds == 0..MaxFd
Helper == CHOOSE p \in Procs : \A r \in Procs : p <= r   \* the instance the peers talk to
SockNames == {"data", "pass"}

UNSET == "unset"                  \* getenv() returned NULL
DEFAULT_TMP == "/tmp"

ABSENT == 0 - 1                   \* no such name in the base directory
FOREIGN == ABSENT + 1              \* a directory no instance created
NOFD == 0 - 1                     \* a descriptor variable not yet assigned
RUNNING == 0 - 1                  \* exit status of a live process

VARIABLES
    env,        \* [XDG_RUNTIME_DIR, TMPDIR]: the environment of every instance
    names,      \* base directory: placeholder name -> directory object | ABSENT
    entries,    \* directory object -> [name -> owner of the socket bound there | 0]
    pc,         \* per instance: the statement of main() about to run
    loc,        \* per instance: the C locals (tmpdir, template, dir, dirfd, ...)
    fdt,        \* per instance: descriptor table, fd -> open object | "free"
    dirobj,     \* per instance: the directory object its "dir" descriptor refers to
    sock,       \* per instance: kernel state of its data and pass sockets
    out,        \* per instance: the lines standard output has received
    diag,       \* per instance: the diagnostic err() wrote to standard error
    status,     \* per instance: RUNNING, or the exit status
    log,        \* per instance: the calls main() has made, with their outcome
    backlog,    \* per instance: peers queued on the pass socket, oldest first
    connpeer,   \* per instance: the peer of the accepted connection | 0
    wire,       \* per instance: messages sent on the connection, not yet received
    peer,       \* per peer: "idle", "queued", "refused", "accepted"
    sawDone,    \* per peer: whether `done` was on stdout when it connected
    got,        \* per peer: the messages it has received
    held,       \* per peer: the received descriptors it still holds, as <<sender, object>>
    atexit,     \* per instance: the objects still open when exit() ran
    dead        \* directory objects that have been removed (rmdir)

vars == <<env, names, entries, pc, loc, fdt, dirobj, sock, out, diag, status,
          log, backlog, connpeer, wire, peer, sawDone, got, held, atexit, dead>>

fsVars == <<names, entries>>
connVars == <<backlog, connpeer, wire>>
peerVars == <<peer, sawDone, got, held>>

\* ---- values

\* One line of standard output: "<base>/<suffix>/<name>\n" or "done\n".
PathLine(base, suffix, name) == [base |-> base, suffix |-> suffix, name |-> name]
DoneLine == [base |-> "", suffix |-> 0, name |-> "done"]

\* The diagnostics of the source, as (call, object) pairs taken from the
\* literal strings handed to err().
Diag(call, what) == [call |-> call, what |-> what]
NoDiag == Diag("", "")

\* A call main() made: which call, on which object, and whether it succeeded.
Call(call, what, ok) == [call |-> call, what |-> what, ok |-> ok]

NoAddr == [fd |-> NOFD, name |-> ""]

InitLoc == [tmpdir |-> "", tries |-> 0, dir |-> 0,
            dirfd |-> NOFD, datasock |-> NOFD, passsock |-> NOFD,
            connsock |-> NOFD, addr |-> NoAddr, sockfd |-> NOFD,
            freed |-> FALSE]

InitFdt == [f \in Fds |-> IF f = 0 THEN "stdin"
                          ELSE IF f = 1 THEN "stdout"
                          ELSE IF f = 2 THEN "stderr" ELSE "free"]

\* ---- kernel helpers

\* open(), socket() and accept4() return the lowest free descriptor.
FreeFds(p) == {f \in Fds : fdt[p][f] = "free"}
LowestFree(p) == CHOOSE f \in FreeFds(p) : \A g \in FreeFds(p) : f <= g

\* Descriptors of p that refer to object o.
FdsOf(p, o) == {f \in Fds : fdt[p][f] = o}

\* Is object o of p referenced by anything outside p's descriptor table:
\* a message in flight, or a descriptor a peer received and has not closed.
Carries(m, p, o) == m.from = p /\ \E k \in 1..Len(m.fds) : m.fds[k] = o

HeldOutside(p, o) ==
    \/ \E i \in 1..Len(wire[p]) : Carries(wire[p][i], p, o)
    \/ \E q \in Peers : <<p, o>> \in held[q]

\* A kernel without reference counting across processes: the socket dies with
\* the last descriptor of p itself.
SockAfterOwnOnly(p, t) ==
    [n \in SockNames |->
        IF sock[p][n] \in {"none", "closed"} THEN sock[p][n]
        ELSE IF \E f \in Fds : t[f] = n THEN sock[p][n]
        ELSE "closed"]

\* State of socket n of p once p's descriptor table becomes t: a socket with
\* no reference left is released by the kernel.
SockAfter(p, t) ==
    [n \in SockNames |->
        IF sock[p][n] \in {"none", "closed"} THEN sock[p][n]
        ELSE IF (\E f \in Fds : t[f] = n) \/ HeldOutside(p, n) THEN sock[p][n]
        ELSE "closed"]

\* close(fd) on p's table.
CloseFd(p, fd) == [fdt[p] EXCEPT ![fd] = "free"]

\* ---- process termination

\* exit(): every descriptor still open is released by the kernel; sockets without
\* another reference die.
Exit(p, code, d, c) ==
    /\ status' = [status EXCEPT ![p] = code]
    /\ diag' = [diag EXCEPT ![p] = d]
    /\ log' = [log EXCEPT ![p] = Append(@, c)]
    /\ pc' = [pc EXCEPT ![p] = "exited"]
    /\ atexit' = [atexit EXCEPT ![p] = {fdt[p][f] : f \in Fds} \ {"free"}]
    /\ fdt' = [fdt EXCEPT ![p] = [f \in Fds |-> "free"]]
    /\ sock' = [sock EXCEPT ![p] = SockAfter(p, [f \in Fds |-> "free"])]

\* err(1, fmt): the diagnostic goes to standard error, then exit(1).
Err(p, call, what, dcall, dwhat) ==
    /\ Exit(p, 1, Diag(dcall, dwhat), Call(call, what, FALSE))
    /\ UNCHANGED <<env, dead, fsVars, loc, dirobj, out, connVars, peerVars>>

\* A successful call: record it and move on.
Step(p, next, call, what) ==
    /\ pc' = [pc EXCEPT ![p] = next]
    /\ log' = [log EXCEPT ![p] = Append(@, Call(call, what, TRUE))]

\* ---- make_private_dir

\* getenv chain and asprintf(&template, "%s/XXXXXX", tmpdir).
ResolveTmpdir ==
    IF env.XDG_RUNTIME_DIR # UNSET THEN env.XDG_RUNTIME_DIR
    ELSE IF env.TMPDIR # UNSET THEN env.TMPDIR
    ELSE DEFAULT_TMP

MakeTemplate(p) ==
    /\ pc[p] = "asprintf"
    /\ \/ /\ Step(p, "mkdtemp", "asprintf", "")
          /\ loc' = [loc EXCEPT ![p].tmpdir = ResolveTmpdir]
          /\ UNCHANGED <<env, dead, atexit, fsVars, fdt, dirobj, sock, out, diag, status,
                         connVars, peerVars>>
       \/ Err(p, "asprintf", "", "asprintf", "")

\* Mutant: a creation that is not exclusive, succeeding on a name that exists.
MkdirNotExclusive(p, s) ==
    names' = [names EXCEPT ![s] = IF @ = ABSENT THEN p ELSE @]

\* mkdir(name, 0700) inside mkdtemp: atomic, and only on a name that is absent.
Mkdir(p, s) ==
    /\ names[s] = ABSENT
    /\ names' = [names EXCEPT ![s] = p]

\* mkdtemp(template): each attempt draws a name for the placeholder and creates
\* it with mkdir, which fails with EEXIST on a name that exists; mkdtemp then
\* tries again, and gives up after its last attempt.  The drawing is local to
\* the process, the mkdir is the one step other processes can see.
Mkdtemp(p) ==
    /\ pc[p] = "mkdtemp"
    /\ \/ \E s \in Suffixes :
             /\ Mkdir(p, s)
             /\ Step(p, "open", "mkdtemp", "")
             /\ loc' = [loc EXCEPT ![p].dir = s, ![p].tries = 0]
             /\ UNCHANGED <<env, dead, atexit, entries, fdt, dirobj, sock, out, diag, status,
                            connVars, peerVars>>
       \/ \E s \in Suffixes :
             /\ names[s] # ABSENT
             /\ loc[p].tries + 1 < MaxTries
             /\ loc' = [loc EXCEPT ![p].tries = @ + 1]
             /\ UNCHANGED <<env, dead, atexit, fsVars, pc, fdt, dirobj, sock, out, diag,
                            status, log, connVars, peerVars>>
       \/ Err(p, "mkdtemp", "", "mkdtemp", "")

\* ---- main, line 50: open(dir, O_DIRECTORY|O_CLOEXEC)

Open(p) ==
    /\ pc[p] = "open"
    /\ \/ /\ names[loc[p].dir] # ABSENT
          /\ FreeFds(p) # {}
          /\ Step(p, "snprintf_data", "open", "dir")
          /\ fdt' = [fdt EXCEPT ![p][LowestFree(p)] = "dir"]
          /\ dirobj' = [dirobj EXCEPT ![p] = names[loc[p].dir]]
          /\ loc' = [loc EXCEPT ![p].dirfd = LowestFree(p)]
          /\ UNCHANGED <<env, dead, atexit, fsVars, sock, out, diag, status, connVars, peerVars>>
       \/ Err(p, "open", "dir", "open", "")

\* ---- listen_unix_socket(dirfd, name)

\* The statement of main() that runs after listen_unix_socket(dirfd, n) returns.
AfterListen(n) == IF n = "data" THEN "print_data" ELSE "print_pass"

\* snprintf(addr.sun_path, ..., "/proc/self/fd/%d/%s", dirfd, name)
SunPath(dfd, n) == [fd |-> dfd, name |-> n]

Snprintf(p, n) ==
    /\ pc[p] = "snprintf_" \o n
    /\ \/ /\ Step(p, "socket_" \o n, "snprintf", n)
          /\ loc' = [loc EXCEPT ![p].addr = SunPath(loc[p].dirfd, n)]
          /\ UNCHANGED <<env, dead, atexit, fsVars, fdt, dirobj, sock, out, diag, status,
                         connVars, peerVars>>
       \/ Err(p, "snprintf", n, "snprintf", "")

\* socket(AF_UNIX, SOCK_STREAM, 0)
Socket(p, n) ==
    /\ pc[p] = "socket_" \o n
    /\ \/ /\ FreeFds(p) # {}
          /\ Step(p, "bind_" \o n, "socket", n)
          /\ fdt' = [fdt EXCEPT ![p][LowestFree(p)] = n]
          /\ sock' = [sock EXCEPT ![p][n] = "open"]
          /\ loc' = [loc EXCEPT ![p].sockfd = LowestFree(p)]
          /\ UNCHANGED <<env, dead, atexit, fsVars, dirobj, out, diag, status, connVars, peerVars>>
       \/ Err(p, "socket", n, "socket", "")

\* Mutant: the failure path of bind closes sockfd before it calls err().
BindClosesOnFailure(p, n) ==
    /\ pc[p] = "bind_" \o n
    /\ status' = [status EXCEPT ![p] = 1]
    /\ diag' = [diag EXCEPT ![p] = Diag("bind", "")]
    /\ log' = [log EXCEPT ![p] = Append(@, Call("bind", n, FALSE))]
    /\ pc' = [pc EXCEPT ![p] = "exited"]
    /\ atexit' = [atexit EXCEPT ![p] =
                     {CloseFd(p, loc[p].sockfd)[f] : f \in Fds} \ {"free"}]
    /\ fdt' = [fdt EXCEPT ![p] = [f \in Fds |-> "free"]]
    /\ sock' = [sock EXCEPT ![p] = SockAfter(p, [f \in Fds |-> "free"])]
    /\ UNCHANGED <<env, dead, fsVars, loc, dirobj, out, connVars, peerVars>>

\* Mutant: the result of bind is not checked, main() goes on after a failure.
BindUnchecked(p, n) ==
    /\ pc[p] = "bind_" \o n
    /\ pc' = [pc EXCEPT ![p] = "listen_" \o n]
    /\ log' = [log EXCEPT ![p] = Append(@, Call("bind", n, FALSE))]
    /\ UNCHANGED <<env, dead, atexit, fsVars, loc, fdt, dirobj, sock, out, diag, status,
                   connVars, peerVars>>

\* Mutant: the address is built from the directory's path, so that bind looks
\* the directory up by name.
BindTargetByPath(p) == names[loc[p].dir]

\* bind(sockfd, &addr, sizeof(addr)): the kernel resolves /proc/self/fd/<fd> to the
\* object that descriptor refers to now, and creates the entry there unless the
\* name is taken.
BindTarget(p) == IF fdt[p][loc[p].addr.fd] = "dir" THEN dirobj[p] ELSE ABSENT

Bind(p, n) ==
    /\ pc[p] = "bind_" \o n
    /\ \/ /\ fdt[p][loc[p].sockfd] \in SockNames
          /\ sock[p][fdt[p][loc[p].sockfd]] = "open"
          /\ BindTarget(p) # ABSENT
          /\ BindTarget(p) \notin dead
          /\ entries[BindTarget(p)][loc[p].addr.name] = 0
          /\ Step(p, "listen_" \o n, "bind", n)
          /\ entries' = [entries EXCEPT ![BindTarget(p)][loc[p].addr.name] = p]
          /\ sock' = [sock EXCEPT ![p][fdt[p][loc[p].sockfd]] = "bound"]
          /\ UNCHANGED <<env, dead, atexit, names, loc, fdt, dirobj, out, diag, status,
                         connVars, peerVars>>
       \/ Err(p, "bind", n, "bind", "")

\* Mutant: listen_unix_socket returns the bound socket without calling listen.
ListenSkipped(p, n) ==
    /\ pc[p] = "listen_" \o n
    /\ Step(p, AfterListen(n), "listen", n)
    /\ loc' = IF n = "data"
              THEN [loc EXCEPT ![p].datasock = loc[p].sockfd]
              ELSE [loc EXCEPT ![p].passsock = loc[p].sockfd]
    /\ UNCHANGED <<env, dead, atexit, fsVars, fdt, dirobj, sock, out, diag, status,
                   connVars, peerVars>>

\* Mutant: the result of listen is not checked, the socket is returned anyway.
ListenUnchecked(p, n) ==
    /\ pc[p] = "listen_" \o n
    /\ pc' = [pc EXCEPT ![p] = AfterListen(n)]
    /\ log' = [log EXCEPT ![p] = Append(@, Call("listen", n, FALSE))]
    /\ loc' = IF n = "data"
              THEN [loc EXCEPT ![p].datasock = loc[p].sockfd]
              ELSE [loc EXCEPT ![p].passsock = loc[p].sockfd]
    /\ UNCHANGED <<env, dead, atexit, fsVars, fdt, dirobj, sock, out, diag, status,
                   connVars, peerVars>>

\* listen(sockfd, 10); return sockfd, assigned to datasock or passsock by main().
Listen(p, n) ==
    /\ pc[p] = "listen_" \o n
    /\ \/ /\ fdt[p][loc[p].sockfd] \in SockNames
          /\ sock[p][fdt[p][loc[p].sockfd]] = "bound"
          /\ Step(p, AfterListen(n), "listen", n)
          /\ sock' = [sock EXCEPT ![p][fdt[p][loc[p].sockfd]] = "listening"]
          /\ loc' = IF n = "data"
                    THEN [loc EXCEPT ![p].datasock = loc[p].sockfd]
                    ELSE [loc EXCEPT ![p].passsock = loc[p].sockfd]
          /\ UNCHANGED <<env, dead, atexit, fsVars, fdt, dirobj, out, diag, status,
                         connVars, peerVars>>
       \/ Err(p, "listen", n, "listen", "")

\* ---- main, lines 53, 55, 56: the announcement

\* The line dprintf formats for announcement `what`.
Format(p, what) ==
    IF what = "done" THEN DoneLine
    ELSE PathLine(loc[p].tmpdir, loc[p].dir, what)

AfterPrint(what) ==
    IF what = "data" THEN "snprintf_pass"
    ELSE IF what = "pass" THEN "print_done" ELSE "close_stdout"

\* dprintf(1, ...): the line reaches standard output, or the write fails; main()
\* does not look at the result and goes on either way.
Dprintf(p, what) ==
    /\ pc[p] = "print_" \o what
    /\ pc' = [pc EXCEPT ![p] = AfterPrint(what)]
    /\ \/ /\ fdt[p][STDOUT] = "stdout"
          /\ out' = [out EXCEPT ![p] = Append(@, Format(p, what))]
          /\ log' = [log EXCEPT ![p] = Append(@, Call("dprintf", what, TRUE))]
       \/ /\ out' = out
          /\ log' = [log EXCEPT ![p] = Append(@, Call("dprintf", what, FALSE))]
    /\ UNCHANGED <<env, dead, atexit, fsVars, loc, fdt, dirobj, sock, diag, status,
                   connVars, peerVars>>

\* line 57: close(1)
CloseStdout(p) ==
    /\ pc[p] = "close_stdout"
    /\ \/ /\ fdt[p][STDOUT] # "free"
          /\ Step(p, "accept4", "close", "1")
          /\ fdt' = [fdt EXCEPT ![p] = CloseFd(p, STDOUT)]
          /\ sock' = [sock EXCEPT ![p] = SockAfter(p, CloseFd(p, STDOUT))]
          /\ UNCHANGED <<env, dead, atexit, fsVars, loc, dirobj, out, diag, status,
                         connVars, peerVars>>
       \/ Err(p, "close", "1", "close", "1")

\* ---- main, lines 58-61: the single accept

\* Mutant: the accept is made on the data socket, where no peer ever queues.
AcceptOnData(p) ==
    /\ pc[p] = "accept4"
    /\ Err(p, "accept4", "passsock", "accept4", "passsock")

\* accept4(passsock, NULL, NULL, SOCK_CLOEXEC): blocks while the listen queue is
\* empty, takes the oldest queued peer otherwise.
Accept(p) ==
    /\ pc[p] = "accept4"
    /\ \/ /\ fdt[p][loc[p].passsock] = "pass"
          /\ sock[p]["pass"] = "listening"
          /\ backlog[p] # <<>>
          /\ FreeFds(p) # {}
          /\ Step(p, "close_passsock", "accept4", "passsock")
          /\ fdt' = [fdt EXCEPT ![p][LowestFree(p)] = "conn"]
          /\ loc' = [loc EXCEPT ![p].connsock = LowestFree(p)]
          /\ connpeer' = [connpeer EXCEPT ![p] = Head(backlog[p])]
          /\ backlog' = [backlog EXCEPT ![p] = Tail(@)]
          /\ peer' = [peer EXCEPT ![Head(backlog[p])] = "accepted"]
          /\ UNCHANGED <<env, dead, atexit, fsVars, dirobj, sock, out, diag,
                         status, wire, sawDone, got, held>>
       \/ Err(p, "accept4", "passsock", "accept4", "passsock")

\* Mutant: the pass socket is closed and the send follows at once, the entry is
\* never unlinked.
ClosePassThenSend(p) ==
    /\ pc[p] = "close_passsock"
    /\ fdt[p][loc[p].passsock] # "free"
    /\ Step(p, "sendmsg", "close", "passsock")
    /\ fdt' = [fdt EXCEPT ![p] = CloseFd(p, loc[p].passsock)]
    /\ sock' = [sock EXCEPT ![p] = SockAfter(p, CloseFd(p, loc[p].passsock))]
    /\ UNCHANGED <<env, dead, atexit, fsVars, loc, dirobj, out, diag, status,
                   connVars, peerVars>>

\* Mutant: the pass socket is left open after the accept.
ClosePassSkipped(p) ==
    /\ pc[p] = "close_passsock"
    /\ Step(p, "unlinkat", "close", "passsock")
    /\ UNCHANGED <<env, dead, atexit, fsVars, loc, fdt, dirobj, sock, out, diag, status,
                   connVars, peerVars>>

\* Mutant: an accept loop; while a peer is queued the helper accepts again
\* instead of closing the pass socket.
ClosePassAcceptsAgain(p) ==
    /\ pc[p] = "close_passsock"
    /\ \/ /\ backlog[p] # <<>>
          /\ pc' = [pc EXCEPT ![p] = "accept4"]
          /\ UNCHANGED <<env, dead, atexit, fsVars, loc, fdt, dirobj, sock, out, diag,
                         status, log, connVars, peerVars>>
       \/ /\ backlog[p] = <<>>
          /\ fdt[p][loc[p].passsock] # "free"
          /\ Step(p, "unlinkat", "close", "passsock")
          /\ fdt' = [fdt EXCEPT ![p] = CloseFd(p, loc[p].passsock)]
          /\ sock' = [sock EXCEPT ![p] = SockAfter(p, CloseFd(p, loc[p].passsock))]
          /\ UNCHANGED <<env, dead, atexit, fsVars, loc, dirobj, out, diag, status,
                         connVars, peerVars>>
       \/ Err(p, "close", "passsock", "close", "passsock")

\* close(passsock)
ClosePass(p) ==
    /\ pc[p] = "close_passsock"
    /\ \/ /\ fdt[p][loc[p].passsock] # "free"
          /\ Step(p, "unlinkat", "close", "passsock")
          /\ fdt' = [fdt EXCEPT ![p] = CloseFd(p, loc[p].passsock)]
          /\ sock' = [sock EXCEPT ![p] = SockAfter(p, CloseFd(p, loc[p].passsock))]
          /\ UNCHANGED <<env, dead, atexit, fsVars, loc, dirobj, out, diag, status,
                         connVars, peerVars>>
       \/ Err(p, "close", "passsock", "close", "passsock")

\* Mutant: the wrong entry is unlinked.
UnlinkatData(p) ==
    /\ pc[p] = "unlinkat"
    /\ fdt[p][loc[p].dirfd] = "dir"
    /\ entries[dirobj[p]]["data"] # 0
    /\ Step(p, "sendmsg", "unlinkat", "pass")
    /\ entries' = [entries EXCEPT ![dirobj[p]]["data"] = 0]
    /\ UNCHANGED <<env, dead, atexit, names, loc, fdt, dirobj, sock, out, diag, status,
                   connVars, peerVars>>

\* unlinkat(dirfd, "pass", 0): removes the entry from the directory dirfd refers to.
Unlinkat(p) ==
    /\ pc[p] = "unlinkat"
    /\ \/ /\ fdt[p][loc[p].dirfd] = "dir"
          /\ entries[dirobj[p]]["pass"] # 0
          /\ Step(p, "sendmsg", "unlinkat", "pass")
          /\ entries' = [entries EXCEPT ![dirobj[p]]["pass"] = 0]
          /\ UNCHANGED <<env, dead, atexit, names, loc, fdt, dirobj, sock, out, diag, status,
                         connVars, peerVars>>
       \/ Err(p, "unlinkat", "pass", "unlinkat", "")

\* ---- main, lines 62-86: the descriptor transfer

\* Sizes of the x86-64 Linux ABI behind sizeof and the CMSG_ macros.
SIZEOF_INT == 4
SIZEOF_CHAR == 1
SIZEOF_CMSGHDR == 16
CMSG_ALIGN(n) == ((n + 7) \div 8) * 8
CMSG_LEN(n) == SIZEOF_CMSGHDR + n
CMSG_SPACE(n) == SIZEOF_CMSGHDR + CMSG_ALIGN(n)

\* The msghdr built in lines 62-85: msg_iov is one iovec of sizeof(waste_data)
\* bytes holding 0; msg_control is the union cmsg, sizeof(cmsg) bytes, whose
\* header says SOL_SOCKET, SCM_RIGHTS and cmsg_len = CMSG_LEN(sizeof(int)).
IovLen == SIZEOF_CHAR
CmsgLen == CMSG_LEN(SIZEOF_INT)
ControlLen == CMSG_SPACE(SIZEOF_INT)

\* What the kernel reads from such a control buffer: the descriptors of an
\* SCM_RIGHTS block are the ints between its header and cmsg_len, and a further
\* block exists only if another header fits behind the first block.
NFds(len) == (len - CMSG_LEN(0)) \div SIZEOF_INT
NBlocks(controllen, len) ==
    IF controllen < SIZEOF_CMSGHDR \/ len > controllen THEN 0
    ELSE IF CMSG_ALIGN(len) + SIZEOF_CMSGHDR <= controllen THEN 2
    ELSE 1

\* Mutant: the iovec is given no length, the message has no ordinary payload.
MsgEmptyPayload(p) ==
    [from |-> p, payload |-> <<>>, blocks |-> NBlocks(ControlLen, CmsgLen),
     fds |-> [k \in 1..NFds(CmsgLen) |-> fdt[p][loc[p].datasock]]]

\* Mutant: the control block is filled with dirfd instead of datasock.
MsgOfDirfd(p) ==
    [from |-> p, payload |-> [i \in 1..IovLen |-> 0],
     blocks |-> NBlocks(ControlLen, CmsgLen),
     fds |-> [k \in 1..NFds(CmsgLen) |-> fdt[p][loc[p].dirfd]]]

\* The message as the kernel sends it: it turns the descriptor number stored in
\* the block (datasock, line 72) into the object that number refers to now.
Msg(p) ==
    [from |-> p, payload |-> [i \in 1..IovLen |-> 0],
     blocks |-> NBlocks(ControlLen, CmsgLen),
     fds |-> [k \in 1..NFds(CmsgLen) |-> fdt[p][loc[p].datasock]]]

Sendmsg(p) ==
    /\ pc[p] = "sendmsg"
    /\ \/ /\ fdt[p][loc[p].connsock] = "conn"
          /\ fdt[p][loc[p].datasock] # "free"
          /\ Step(p, "close_connsock", "sendmsg", "connsock")
          /\ wire' = [wire EXCEPT ![p] = Append(@, Msg(p))]
          /\ UNCHANGED <<env, dead, atexit, fsVars, loc, fdt, dirobj, sock, out, diag, status,
                         backlog, connpeer, peerVars>>
       \/ Err(p, "sendmsg", "connsock", "sendmsg", "connsock")

\* ---- main, lines 87-91: teardown

\* close(connsock)
CloseConn(p) ==
    /\ pc[p] = "close_connsock"
    /\ \/ /\ fdt[p][loc[p].connsock] # "free"
          /\ Step(p, "free", "close", "connsock")
          /\ fdt' = [fdt EXCEPT ![p] = CloseFd(p, loc[p].connsock)]
          /\ sock' = [sock EXCEPT ![p] = SockAfter(p, CloseFd(p, loc[p].connsock))]
          /\ UNCHANGED <<env, dead, atexit, fsVars, loc, dirobj, out, diag, status,
                         connVars, peerVars>>
       \/ Err(p, "close", "connsock", "close", "connsock")

\* free(dir)
Free(p) ==
    /\ pc[p] = "free"
    /\ Step(p, "close_datasock", "free", "dir")
    /\ loc' = [loc EXCEPT ![p].freed = TRUE]
    /\ UNCHANGED <<env, dead, atexit, fsVars, fdt, dirobj, sock, out, diag, status,
                   connVars, peerVars>>

\* Mutant: the data socket is never closed by the program.
CloseDataSkipped(p) ==
    /\ pc[p] = "close_datasock"
    /\ Step(p, "close_dirfd", "close", "datasock")
    /\ UNCHANGED <<env, dead, atexit, fsVars, loc, fdt, dirobj, sock, out, diag,
                   status, connVars, peerVars>>

\* close(datasock); its diagnostic in the source reads "close(connsock)".
CloseData(p) ==
    /\ pc[p] = "close_datasock"
    /\ \/ /\ fdt[p][loc[p].datasock] # "free"
          /\ Step(p, "close_dirfd", "close", "datasock")
          /\ fdt' = [fdt EXCEPT ![p] = CloseFd(p, loc[p].datasock)]
          /\ sock' = [sock EXCEPT ![p] = SockAfter(p, CloseFd(p, loc[p].datasock))]
          /\ UNCHANGED <<env, dead, atexit, fsVars, loc, dirobj, out, diag, status,
                         connVars, peerVars>>
       \/ Err(p, "close", "datasock", "close", "connsock")

\* close(dirfd); its diagnostic in the source reads "close(connsock)".
CloseDir(p) ==
    /\ pc[p] = "close_dirfd"
    /\ \/ /\ fdt[p][loc[p].dirfd] # "free"
          /\ Step(p, "return", "close", "dirfd")
          /\ fdt' = [fdt EXCEPT ![p] = CloseFd(p, loc[p].dirfd)]
          /\ sock' = [sock EXCEPT ![p] = SockAfter(p, CloseFd(p, loc[p].dirfd))]
          /\ UNCHANGED <<env, dead, atexit, fsVars, loc, dirobj, out, diag, status,
                         connVars, peerVars>>
       \/ Err(p, "close", "dirfd", "close", "connsock")

\* return 0
Return(p) ==
    /\ pc[p] = "return"
    /\ Exit(p, 0, NoDiag, Call("return", "0", TRUE))
    /\ UNCHANGED <<env, dead, fsVars, loc, dirobj, out, connVars, peerVars>>

\* ---- the whole of main(), and its first part up to the first announcement line

Provision(p) ==
    \/ MakeTemplate(p)
    \/ Mkdtemp(p)
    \/ Open(p)
    \/ Snprintf(p, "data") \/ Socket(p, "data") \/ Bind(p, "data") \/ Listen(p, "data")
    \/ Dprintf(p, "data")

Main(p) ==
    \/ Provision(p)
    \/ Snprintf(p, "pass") \/ Socket(p, "pass") \/ Bind(p, "pass") \/ Listen(p, "pass")
    \/ Dprintf(p, "pass")
    \/ Dprintf(p, "done")
    \/ CloseStdout(p)
    \/ Accept(p)
    \/ ClosePass(p)
    \/ Unlinkat(p)
    \/ Sendmsg(p)
    \/ CloseConn(p)
    \/ Free(p)
    \/ CloseData(p)
    \/ CloseDir(p)
    \/ Return(p)

\* ---- peers of the helper

\* Has the helper's standard output received line l.
Announced(p, l) == \E i \in 1..Len(out[p]) : out[p][i] = l
PassLines(p) == {out[p][i] : i \in 1..Len(out[p])} \ {DoneLine}

\* connect() to a path read from the helper's standard output: the path is looked
\* up by name; the connection is queued if a listening socket is bound there and
\* refused otherwise.
Listener(l) ==
    IF names[l.suffix] = ABSENT THEN 0
    ELSE IF entries[names[l.suffix]][l.name] = 0 THEN 0
    ELSE IF sock[entries[names[l.suffix]][l.name]][l.name] # "listening" THEN 0
    ELSE entries[names[l.suffix]][l.name]

PeerConnect(q) ==
    /\ peer[q] = "idle"
    /\ \E l \in PassLines(Helper) :
          /\ l.name = "pass"
          /\ sawDone' = [sawDone EXCEPT ![q] = Announced(Helper, DoneLine)]
          /\ IF Listener(l) = 0
             THEN /\ peer' = [peer EXCEPT ![q] = "refused"]
                  /\ backlog' = backlog
             ELSE /\ Len(backlog[Listener(l)]) < BACKLOG
                  /\ peer' = [peer EXCEPT ![q] = "queued"]
                  /\ backlog' = [backlog EXCEPT ![Listener(l)] = Append(@, q)]
    /\ UNCHANGED <<env, dead, atexit, fsVars, pc, loc, fdt, dirobj, sock, out, diag, status,
                   log, connpeer, wire, got, held>>

\* recvmsg() on the accepted connection: the peer takes the oldest message and
\* with it a reference to every object the message carries.
Refs(m) == {<<m.from, m.fds[k]>> : k \in 1..Len(m.fds)}

PeerRecv(q) ==
    /\ peer[q] = "accepted"
    /\ \E p \in Procs :
          /\ connpeer[p] = q
          /\ wire[p] # <<>>
          /\ got' = [got EXCEPT ![q] = Append(@, Head(wire[p]))]
          /\ held' = [held EXCEPT ![q] = @ \cup Refs(Head(wire[p]))]
          /\ wire' = [wire EXCEPT ![p] = Tail(@)]
    /\ UNCHANGED <<env, dead, atexit, fsVars, pc, loc, fdt, dirobj, sock, out, diag, status,
                   log, backlog, connpeer, peer, sawDone>>

\* close() of a received descriptor by the peer: the object is released when
\* this was its last reference.
HeldAfter(q, x) == [held EXCEPT ![q] = @ \ {x}]

StillReferenced(x, h) ==
    \/ FdsOf(x[1], x[2]) # {}
    \/ \E i \in 1..Len(wire[x[1]]) : Carries(wire[x[1]][i], x[1], x[2])
    \/ \E r \in Peers : x \in h[r]

PeerClose(q) ==
    /\ \E x \in held[q] :
          /\ held' = HeldAfter(q, x)
          /\ sock' = IF x[2] \in SockNames /\ ~StillReferenced(x, HeldAfter(q, x))
                         /\ sock[x[1]][x[2]] \notin {"none", "closed"}
                      THEN [sock EXCEPT ![x[1]][x[2]] = "closed"]
                      ELSE sock
    /\ UNCHANGED <<env, dead, atexit, fsVars, pc, loc, fdt, dirobj, out, diag,
                   status, log, connVars, peer, sawDone, got>>

\* ---- specifications

Init ==
    /\ env \in [XDG_RUNTIME_DIR : {UNSET, "/run/user"}, TMPDIR : {UNSET, "/var/tmp"}]
    /\ names \in [Suffixes -> {ABSENT, FOREIGN}]
    /\ entries = [d \in {FOREIGN} \cup Procs |-> [n \in SockNames |-> 0]]
    /\ pc = [p \in Procs |-> "asprintf"]
    /\ loc = [p \in Procs |-> InitLoc]
    /\ fdt = [p \in Procs |-> InitFdt]
    /\ dirobj = [p \in Procs |-> ABSENT]
    /\ sock = [p \in Procs |-> [n \in SockNames |-> "none"]]
    /\ out = [p \in Procs |-> <<>>]
    /\ diag = [p \in Procs |-> NoDiag]
    /\ status = [p \in Procs |-> RUNNING]
    /\ log = [p \in Procs |-> <<>>]
    /\ backlog = [p \in Procs |-> <<>>]
    /\ connpeer = [p \in Procs |-> 0]
    /\ wire = [p \in Procs |-> <<>>]
    /\ peer = [q \in Peers |-> "idle"]
    /\ sawDone = [q \in Peers |-> FALSE]
    /\ got = [q \in Peers |-> <<>>]
    /\ held = [q \in Peers |-> {}]
    /\ atexit = [p \in Procs |-> {}]
    /\ dead = {}

\* One helper and its peers.
Next ==
    \/ Main(Helper)
    \/ \E q \in Peers : PeerConnect(q)
    \/ \E q \in Peers : PeerRecv(q)
    \/ \E q \in Peers : PeerClose(q)

Spec == Init /\ [][Next]_vars

\* The same, with the scheduling of a single-threaded process: the helper keeps
\* executing its next statement for as long as that statement can complete.  A
\* call may fail, but nothing forces it to.
Progress(p) == Main(p) /\ status'[p] # 1

SpecLive == Spec /\ WF_vars(Progress(Helper))

\* ---- other processes acting on the path of the helper's directory

DirObjs == {FOREIGN} \cup Procs
HelperDir == loc[Helper].dir

\* rename(2) of the directory to a place outside the base directory: the name
\* is gone, the object lives on.
RenameAway ==
    /\ HelperDir # 0
    /\ names[HelperDir] # ABSENT
    /\ names' = [names EXCEPT ![HelperDir] = ABSENT]
    /\ UNCHANGED <<env, dead, atexit, entries, pc, loc, fdt, dirobj, sock, out,
                   diag, status, log, connVars, peerVars>>

\* Another directory is created at, or renamed to, the free name.
TakeOver ==
    /\ HelperDir # 0
    /\ names[HelperDir] = ABSENT
    /\ names' = [names EXCEPT ![HelperDir] = FOREIGN]
    /\ UNCHANGED <<env, dead, atexit, entries, pc, loc, fdt, dirobj, sock, out,
                   diag, status, log, connVars, peerVars>>

\* rmdir(2) of the directory while it is empty: the name is gone and nothing can
\* be created in the object any more.
Rmdir ==
    /\ HelperDir # 0
    /\ names[HelperDir] \in Procs
    /\ \A n \in SockNames : entries[names[HelperDir]][n] = 0
    /\ names' = [names EXCEPT ![HelperDir] = ABSENT]
    /\ dead' = dead \cup {names[HelperDir]}
    /\ UNCHANGED <<env, atexit, entries, pc, loc, fdt, dirobj, sock, out,
                   diag, status, log, connVars, peerVars>>

\* The helper and the peers that connect to it, with the path of its directory
\* renamed, replaced or removed at any moment.
NextRace ==
    \/ Main(Helper)
    \/ \E q \in Peers : PeerConnect(q)
    \/ RenameAway
    \/ TakeOver
    \/ Rmdir

SpecRace == Init /\ [][NextRace]_vars

\* NInst helpers started against the same base directory, each run up to its
\* first announcement line.
NextConc == \E p \in Procs : Provision(p)

SpecConc == Init /\ [][NextConc]_vars

\* ---- vocabulary of the properties

H == Helper

Calls(p) == {log[p][i] : i \in 1..Len(log[p])}
Did(p, call, what) == Call(call, what, TRUE) \in Calls(p)
Failed(p, call, what) == Call(call, what, FALSE) \in Calls(p)

\* Call c was made by p strictly before the i-th call of its log.
Before(p, c, i) == \E j \in 1..(i - 1) : log[p][j] = c

DataLine(p) == PathLine(loc[p].tmpdir, loc[p].dir, "data")
PassLine(p) == PathLine(loc[p].tmpdir, loc[p].dir, "pass")
ThreeLines(p) == <<DataLine(p), PassLine(p), DoneLine>>

Running(p) == status[p] = RUNNING
Accepted(p) == connpeer[p] # 0
Sent(p) == Did(p, "sendmsg", "connsock")
Ready(p, n) == sock[p][n] = "listening" /\ dirobj[p] \in Procs
               /\ entries[dirobj[p]][n] = p

\* ---- C1

\* C1 as stated: once `done` is on standard output, both sockets had been bound
\* and were listening, and the pass socket stays listening until a connection
\* has been accepted, so that no peer that saw `done` is refused before then.
C1_ListeningUntilAccepted ==
    (Announced(H, DoneLine) /\ ~Accepted(H)) => Ready(H, "pass")

\* C1 as amended: `done` is written only after both sockets were bound and
\* listening, and from then on the pass socket stays listening until a connection
\* has been accepted or the process has terminated on a failed close(1) or accept4;
\* a peer that connects after seeing `done` is refused only if the helper had
\* already accepted a connection or terminated.
C1_ReadyBeforeDone ==
    /\ \A i \in 1..Len(log[H]) :
          log[H][i].call = "dprintf" /\ log[H][i].what = "done" =>
             /\ Before(H, Call("listen", "data", TRUE), i)
             /\ Before(H, Call("listen", "pass", TRUE), i)
    /\ (Announced(H, DoneLine) /\ ~Accepted(H) /\ Running(H)) =>
          Ready(H, "pass") /\ Ready(H, "data")
    /\ (Announced(H, DoneLine) /\ ~Accepted(H) /\ ~Running(H)) =>
          Failed(H, "close", "1") \/ Failed(H, "accept4", "passsock")
    /\ \A q \in Peers :
          (sawDone[q] /\ peer[q] = "refused") => (Accepted(H) \/ ~Running(H))

C1_Witness ==
    \E q \in Peers : sawDone[q] /\ peer[q] = "queued" /\ Running(H) /\ ~Accepted(H)

\* ---- C2

Needs(what) == IF what = "data" THEN {"data"} ELSE SockNames

ReachedAccept(p) == pc[p] = "accept4" \/ \E c \in Calls(p) : c.call = "accept4"

\* C3: in every run that reaches accept, standard output has received exactly
\* the lines <dir>/data, <dir>/pass, done in that order, and standard output
\* was closed after `done` and before accept4.
C3_ThreeLinesThenClosed ==
    ReachedAccept(H) =>
       /\ out[H] = ThreeLines(H)
       /\ FdsOf(H, "stdout") = {}
       /\ \E i \in 1..Len(log[H]) :
             /\ log[H][i] = Call("close", "1", TRUE)
             /\ \A j \in 1..Len(log[H]) :
                   /\ log[H][j].call = "dprintf" => j < i
                   /\ log[H][j].call = "accept4" => i < j

\* ---- C4

WriteFailed(p) == \E c \in Calls(p) : c.call = "dprintf" /\ ~c.ok

\* C5: when the write of an announcement line fails the process terminates
\* with nonzero status: it does not go on to close(1), accept4 or sendmsg and
\* does not exit with status 0.
C5_WriteFailureFatal ==
    WriteFailed(H) =>
       /\ status[H] # 0
       /\ pc[H] \notin {"accept4", "close_passsock", "unlinkat", "sendmsg"}
       /\ \A c \in Calls(H) :
             /\ c.call \notin {"accept4", "sendmsg"}
             /\ ~(c.call = "close" /\ c.what = "1")

\* ---- C6

NCalls(p, call) == Cardinality({i \in 1..Len(log[p]) : log[p][i].call = call})

\* C6: at most one accept and at most one send per run; once the descriptor
\* has been sent the pass socket is closed and its entry removed, so that a
\* connection to any announced path named `pass` finds no listener, and at most
\* one peer is ever accepted or receives a message.
C6_SingleHandoff ==
    /\ NCalls(H, "accept4") <= 1
    /\ NCalls(H, "sendmsg") <= 1
    /\ Cardinality({q \in Peers : peer[q] = "accepted"}) <= 1
    /\ \A q \in Peers : Len(got[q]) <= 1 /\ (got[q] # <<>> => connpeer[H] = q)
    /\ Sent(H) =>
          /\ sock[H]["pass"] = "closed"
          /\ FdsOf(H, "pass") = {}
          /\ entries[dirobj[H]]["pass"] = 0
          /\ Listener(PassLine(H)) = 0

C6_Witness ==
    \E q, r \in Peers : got[q] # <<>> /\ peer[r] = "refused" /\ Sent(H)

\* ---- C7

\* C7: whenever the process has exited with status 0 the `pass` entry is gone
\* while the `data` entry and the private directory still exist; and in every
\* state a `data` entry, once bound, is still there.
C7_CleanupOnSuccess ==
    /\ status[H] = 0 =>
          /\ names[loc[H].dir] = dirobj[H]
          /\ dirobj[H] = H
          /\ entries[dirobj[H]]["pass"] = 0
          /\ entries[dirobj[H]]["data"] = H
    /\ Did(H, "bind", "data") =>
          names[loc[H].dir] = H /\ entries[H]["data"] = H

C7_Witness == status[H] = 0 /\ \E q \in Peers : got[q] # <<>>

\* ---- C8

\* C8: a call that fails is the last call the process makes and leaves it
\* terminated with nonzero status; the process exits with status 0 only if
\* every call succeeded.
C8_EveryErrorFatal ==
    /\ \A i \in 1..Len(log[H]) :
          ~log[H][i].ok => i = Len(log[H]) /\ status[H] > 0
    /\ status[H] = 0 => \A c \in Calls(H) : c.ok

\* ---- C9

LastCall(p) == log[p][Len(log[p])]

\* C9: the diagnostic of a terminated process names the call that failed, and,
\* where the diagnostic names an object, the object that call was made on.
C9_DiagnosticNamesCall ==
    status[H] > 0 =>
       /\ diag[H].call = LastCall(H).call
       /\ diag[H].what # "" => diag[H].what = LastCall(H).what

\* ---- C10

PathOf(p) == <<loc[p].tmpdir, loc[p].dir>>
HasDir(p) == loc[p].dir # 0

\* C10: instances run concurrently against one base directory hold pairwise
\* distinct private directories, each created by the instance that holds it
\* (never a name that existed), and their first announcement lines differ.
C10_DistinctDirs ==
    /\ \A p \in Procs : HasDir(p) => names[loc[p].dir] = p
    /\ \A p, r \in Procs :
          p # r =>
             /\ (HasDir(p) /\ HasDir(r)) => PathOf(p) # PathOf(r)
             /\ (out[p] # <<>> /\ out[r] # <<>>) => out[p][1] # out[r][1]

C10_Witness ==
    \A p \in Procs : out[p] = <<DataLine(p)>> /\ pc[p] = "snprintf_pass"

\* ---- C11

\* The messages p has sent on its connection: still in flight, or received.
Received(p) == UNION {{<<q, i>> : i \in {j \in 1..Len(got[q]) : got[q][j].from = p}}
                      : q \in Peers}
NSent(p) == Len(wire[p]) + Cardinality(Received(p))
MsgsOf(p) == {wire[p][i] : i \in 1..Len(wire[p])}
             \cup {got[x[1]][x[2]] : x \in Received(p)}

\* C11: the helper sends at most one message on the accepted connection, and
\* exactly one by the time it has closed the connection; the message carries
\* exactly one byte of ordinary payload and exactly one ancillary block holding
\* exactly one descriptor.
C11_OneMessage ==
    /\ NSent(H) <= 1
    /\ NSent(H) = NCalls(H, "sendmsg") - (IF Failed(H, "sendmsg", "connsock") THEN 1 ELSE 0)
    /\ Did(H, "close", "connsock") => NSent(H) = 1
    /\ \A m \in MsgsOf(H) :
          Len(m.payload) = 1 /\ m.blocks = 1 /\ Len(m.fds) = 1

C11_Witness ==
    Did(H, "close", "connsock") /\ \E q \in Peers : got[q] # <<>>

\* ---- C12

\* The owner of the socket bound at an announced path, 0 if there is none.
BoundAt(l) ==
    IF names[l.suffix] \notin Procs THEN 0 ELSE entries[names[l.suffix]][l.name]

\* C12: the descriptor the peer receives refers to the helper's data socket,
\* never to the pass socket, the connection or the directory; that socket is
\* the one bound under `data` in the private directory, it is listening, and
\* the announced <dir>/data path leads to it.
C12_ReceivedIsData ==
    /\ \A m \in MsgsOf(H) : m.fds = <<"data">>
    /\ \A q \in Peers : \A x \in held[q] :
          /\ x = <<H, "data">>
          /\ sock[H]["data"] = "listening"
          /\ dirobj[H] = H /\ names[loc[H].dir] = H
          /\ entries[H]["data"] = H
          /\ BoundAt(DataLine(H)) = H

C12_Witness ==
    \E q \in Peers : <<H, "data">> \in held[q] /\ Announced(H, DataLine(H))

\* ---- C13

\* The calls of the handoff, in the order of lines 58-91.
Handoff ==
    << <<"accept4", "passsock">>, <<"close", "passsock">>, <<"unlinkat", "pass">>,
       <<"sendmsg", "connsock">>, <<"close", "connsock">>, <<"free", "dir">>,
       <<"close", "datasock">>, <<"close", "dirfd">>, <<"return", "0">> >>

\* Position in the log of the accept4 call, 0 if it has not been made.
AcceptAt(p) ==
    IF \E i \in 1..Len(log[p]) : log[p][i].call = "accept4"
    THEN CHOOSE i \in 1..Len(log[p]) : log[p][i].call = "accept4"
    ELSE 0

\* The states of the handoff, read from the statement main() is at.
Phase(p) ==
    IF status[p] > 0 THEN "TERMINATED"
    ELSE IF pc[p] = "accept4" THEN "AWAITING_CONNECTION"
    ELSE IF pc[p] \in {"close_passsock", "unlinkat", "sendmsg"} THEN "CONNECTED"
    ELSE IF pc[p] \in {"close_connsock", "free", "close_datasock", "close_dirfd"}
         THEN "SENT"
    ELSE IF pc[p] = "return" \/ status[p] = 0 THEN "CLOSED"
    ELSE "SETUP"

\* C13: from the accept on, the calls of a run are a prefix of accept4,
\* close(passsock), unlinkat, sendmsg, close(connsock), free, close(datasock),
\* close(dirfd), return, none skipped or repeated; a call that fails is the last
\* one and terminates the process; and each handoff state has the calls before
\* it behind it: CONNECTED after the accept, SENT after the close and unlink of
\* pass and the send, CLOSED after the three closes.
C13_HandoffOrder ==
    /\ AcceptAt(H) # 0 =>
          /\ Len(log[H]) - AcceptAt(H) + 1 <= Len(Handoff)
          /\ \A i \in AcceptAt(H)..Len(log[H]) :
                /\ <<log[H][i].call, log[H][i].what>> = Handoff[i - AcceptAt(H) + 1]
                /\ ~log[H][i].ok => i = Len(log[H]) /\ Phase(H) = "TERMINATED"
    /\ Phase(H) = "AWAITING_CONNECTION" => AcceptAt(H) = 0 /\ ~Accepted(H)
    /\ Phase(H) = "CONNECTED" => Did(H, "accept4", "passsock") /\ ~Sent(H)
    /\ Phase(H) = "SENT" =>
          /\ Did(H, "close", "passsock") /\ Did(H, "unlinkat", "pass") /\ Sent(H)
          /\ sock[H]["pass"] = "closed" /\ entries[dirobj[H]]["pass"] = 0
    /\ Phase(H) = "CLOSED" =>
          /\ Did(H, "close", "connsock") /\ Did(H, "close", "datasock")
          /\ Did(H, "close", "dirfd")

C13_Witness == Phase(H) = "CLOSED" /\ status[H] = 0

\* ---- C14

Closes == {"1", "passsock", "connsock", "datasock", "dirfd"}
ClosedAt(p, what) == {i \in 1..Len(log[p]) : log[p][i] = Call("close", what, TRUE)}
UsedAt(p, call) == {i \in 1..Len(log[p]) : log[p][i].call = call}

\* C14: at the exit with status 0 nothing the process acquired is still open
\* (only the inherited standard input and standard error are left to the
\* kernel), each of standard output, pass socket, connection, data socket and
\* directory handle has been closed exactly once, and in no run is a descriptor
\* closed twice or used by accept4, unlinkat or sendmsg after its close.
C14_LeakFree ==
    /\ status[H] = 0 =>
          /\ atexit[H] = {"stdin", "stderr"}
          /\ \A w \in Closes : Cardinality(ClosedAt(H, w)) = 1
    /\ pc[H] = "return" => {fdt[H][f] : f \in Fds} = {"stdin", "stderr", "free"}
    /\ \A w \in Closes :
          Cardinality({i \in 1..Len(log[H]) :
                          log[H][i].call = "close" /\ log[H][i].what = w}) <= 1
    /\ \A i \in UsedAt(H, "accept4") : \A j \in ClosedAt(H, "passsock") : i < j
    /\ \A i \in UsedAt(H, "unlinkat") : \A j \in ClosedAt(H, "dirfd") : i < j
    /\ \A i \in UsedAt(H, "sendmsg") :
          \A j \in ClosedAt(H, "connsock") \cup ClosedAt(H, "datasock") : i < j

C14_Witness == status[H] = 0 /\ atexit[H] = {"stdin", "stderr"}

\* ---- C15

BindOrListenFailed(p, n) == Failed(p, "bind", n) \/ Failed(p, "listen", n)

\* C15 as stated: when bind or listen fails the socket's descriptor has been
\* closed by the program before the process aborts, so it is not among the
\* objects exit() finds open.
C15_ClosedBeforeAbort ==
    \A n \in SockNames : BindOrListenFailed(H, n) => n \notin atexit[H]

\* C15 as amended: when bind or listen fails the program does not close the
\* socket's descriptor; it aborts through err() with the descriptor open, and the
\* socket is released by process termination only.
C15_ReleasedByExit ==
    \A n \in SockNames :
       BindOrListenFailed(H, n) =>
          /\ status[H] > 0
          /\ n \in atexit[H]
          /\ sock[H][n] = "closed"
          /\ FdsOf(H, n) = {}

C15_Witness == Failed(H, "listen", "pass") /\ atexit[H] # {}

\* ---- C16

NoPeerConnected(p) == backlog[p] = <<>> /\ connpeer[p] = 0
PastAccept(p) ==
    \/ pc[p] \in {"close_passsock", "unlinkat", "sendmsg", "close_connsock",
                  "free", "close_datasock", "close_dirfd", "return"}
    \/ status[p] = 0
    \/ \E c \in Calls(p) : c.call \in {"close", "unlinkat", "sendmsg"} /\ c.what # "1"

\* C16 as stated, first half: once the process has reached the accept and no
\* peer has connected, it is blocked there: still running, at accept4.
C16_BlockedForever ==
    (ReachedAccept(H) /\ NoPeerConnected(H)) => (pc[H] = "accept4" /\ Running(H))

\* C16 as amended: while no peer has connected the process never gets past
\* the accept (it does not send, clean up or exit with status 0), and it leaves
\* the accept only by a failure of accept4 itself, which terminates it with
\* nonzero status; a process terminates with nonzero status only when a call
\* failed; and once a peer is queued on the pass socket the process eventually
\* terminates, hence with status 0 when no call fails.
C16_BlockingAndTermination ==
    /\ [](NoPeerConnected(H) => ~PastAccept(H))
    /\ [][(pc[H] = "accept4" /\ backlog[H] = <<>> /\ pc'[H] # "accept4")
             => (status'[H] > 0 /\ diag'[H] = Diag("accept4", "passsock"))]_vars
    /\ [](status[H] > 0 => \E c \in Calls(H) : ~c.ok)
    /\ ((backlog[H] # <<>>) ~> ~Running(H))

C16_Witness ==
    /\ pc[H] = "accept4" /\ Running(H) /\ NoPeerConnected(H)
    /\ Announced(H, DoneLine) /\ \A q \in Peers : peer[q] = "idle"

\* ---- C17

PathMoved(p) == HasDir(p) /\ names[loc[p].dir] # dirobj[p]

\* C17: whatever happens to the directory's path, the binds create `data` and
\* `pass` in the directory object the handle refers to and the unlink removes
\* `pass` from that object; no other directory, in particular none that has
\* taken over the path, ever gains or loses an entry.
C17_DescriptorRelative ==
    /\ \A d \in DirObjs \ {dirobj[H]} : \A n \in SockNames : entries[d][n] = 0
    /\ Did(H, "bind", "data") => entries[dirobj[H]]["data"] = H
    /\ (Did(H, "bind", "pass") /\ ~Did(H, "unlinkat", "pass")) =>
          entries[dirobj[H]]["pass"] = H
    /\ Did(H, "unlinkat", "pass") => entries[dirobj[H]]["pass"] = 0

C17_Witness ==
    /\ dirobj[H] = H /\ names[loc[H].dir] = FOREIGN
    /\ Did(H, "bind", "data") /\ Did(H, "unlinkat", "pass")

\* ---- C18

InFlight(p, o) == \E i \in 1..Len(wire[p]) : Carries(wire[p][i], p, o)
HeldByPeer(p, o) == \E q \in Peers : <<p, o>> \in held[q]
SentBefore(p, j) == Before(p, Call("sendmsg", "connsock", TRUE), j)

\* C18: while the message is in flight or a peer holds the descriptor it
\* received, the data socket is listening, whether or not the helper has closed
\* its own descriptor or exited; every message the helper sent refers to the
\* data socket and nothing else; the helper makes its close(datasock) only
\* after the successful sendmsg, and at the sendmsg its datasock descriptor is
\* open on the listening data socket.
C18_IndependentReference ==
    /\ (InFlight(H, "data") \/ HeldByPeer(H, "data")) =>
          (Sent(H) /\ sock[H]["data"] = "listening")
    /\ \A m \in MsgsOf(H) : Refs(m) = {<<H, "data">>}
    /\ \A j \in 1..Len(log[H]) :
          (log[H][j].call = "close" /\ log[H][j].what = "datasock") => SentBefore(H, j)
    /\ pc[H] = "sendmsg" =>
          (fdt[H][loc[H].datasock] = "data" /\ sock[H]["data"] = "listening")

\* The helper has exited with status 0, its own descriptor closed, and a peer
\* holds the received descriptor of the still listening data socket.
C18_Witness ==
    /\ status[H] = 0 /\ FdsOf(H, "data") = {}
    /\ Did(H, "close", "datasock")
    /\ HeldByPeer(H, "data") /\ sock[H]["data"] = "listening"

\* ---- C19

Queued(p) == {backlog[p][i] : i \in 1..Len(backlog[p])}
Served == {q \in Peers : got[q] # <<>> \/ held[q] # {}}

\* C19: however many peers are queued on the pass socket, at most one peer
\* ever receives a message or a descriptor; the helper accepts the connection
\* of one peer only, and every other peer, queued or not, is never accepted and
\* never receives anything.
C19_OnePeerServed ==
    /\ Cardinality(Served) <= 1
    /\ Cardinality({q \in Peers : peer[q] = "accepted"}) <= NCalls(H, "accept4")
    /\ Accepted(H) => peer[connpeer[H]] = "accepted"
    /\ \A q \in Peers \ {connpeer[H]} :
          peer[q] # "accepted" /\ got[q] = <<>> /\ held[q] = {}
    /\ \A q \in Queued(H) : peer[q] = "queued" /\ q # connpeer[H]

\* Two peers raced for the pass socket: one received the descriptor, the other
\* is still in the queue of the closed socket, and the helper has exited.
C19_Witness ==
    \E q, r \in Peers :
        /\ q # r /\ status[H] = 0
        /\ connpeer[H] = q /\ held[q] = {<<H, "data">>}
        /\ r \in Queued(H) /\ peer[r] = "queued" /\ got[r] = <<>>

====
